---- MODULE Spec2Model ----
(***************************************************************************)
(* AgentSimLab: the deterministic kernel (agentsimlab/kernel.py), the      *)
(* CounterAgent (agentsimlab/agent.py) and the Snapshot pair               *)
(* (agentsimlab/snapshot.py, agentsimlab/runner.py).                       *)
(*                                                                         *)
(* A "world" is one Kernel with its RNGManager and the agents that run on  *)
(* it.  Every method of the source is an operator from a world (and the    *)
(* method's arguments) to the world after the call; the field err holds    *)
(* the exception the call raised ("none" when it returned).                *)
(*                                                                         *)
(* random.Random is abstracted: a generator state is the pair (s, n) of    *)
(* the seed it was built from and the number of outputs taken, and its     *)
(* n-th output is Gen(s, n).  Widths are scaled down from 64 bits to Bits. *)
(***************************************************************************)
EXTENDS Integers, Sequences, FiniteSets, TLC

VARIABLES sim, snap, plan, prog, seen, last

vars == <<sim, snap, plan, prog, seen, last>>

----------------------------------------------------------------------------
(* Bounds of the model *)

\* width of a master output and of a name hash (64 in the source)
Bits == 3
\* ticks a kernel may complete in the scheduler and restore specifications
MaxTime == 2
\* caller draws from one stream in the stream-manager specification
MaxDraws == 2
\* ticks before and after the snapshot in the snapshot scenarios
MaxK == 2
\* steps of one tick in which an entity calls register or unregister
MaxInner == 1
\* ticks begun in the restore specification
MaxSteps == 2

----------------------------------------------------------------------------
(* Values *)

Inst == {1, 2}
Handles == {"a0", "a1"}
Ids == {"a0", "a1"}
DefaultPhases == <<"perceive", "act", "commit">>
PhaseNames == {"perceive", "act", "commit"}
None == "None"
Seeds == {0, 1}

RECURSIVE Pow2(_)
Pow2(n) == IF n = 0 THEN 1 ELSE 2 * Pow2(n - 1)

RECURSIVE Xor(_, _)
Xor(a, b) ==
    IF a = 0 THEN b
    ELSE IF b = 0 THEN a
    ELSE ((a + b) % 2) + 2 * Xor(a \div 2, b \div 2)

InSeq(x, s) == \E i \in DOMAIN s : s[i] = x

SelectPairs(s, entity) ==
    SelectSeq(s, LAMBDA p : p[2] # entity)

HandlesOf(s) == [i \in DOMAIN s |-> s[i][2]]

Count(x, s) == Cardinality({i \in DOMAIN s : s[i] = x})

----------------------------------------------------------------------------
(* random.Random and RNGStream *)

\* the n-th output of a generator seeded with s
Gen(s, n) == (7 * s + 5 * n + 3 * s * n + 1) % Pow2(Bits)

NewRandom(seed) == [s |-> seed, n |-> 0]

Output(rng) == Gen(rng.s, rng.n)

Advance(rng) == [rng EXCEPT !.n = @ + 1]

\* a state token as getstate() returns it; ok is FALSE for a malformed one
Token(rng) == [ok |-> TRUE, s |-> rng.s, n |-> rng.n]

BadToken == [ok |-> FALSE, s |-> 0, n |-> 0]

RNGStream(name, seed) == [name |-> name, seed |-> seed, rng |-> NewRandom(seed)]

----------------------------------------------------------------------------
(* RNGManager *)

HasStream(w, name) == \E i \in DOMAIN w.streams : w.streams[i].name = name

StreamIdx(w, name) == CHOOSE i \in DOMAIN w.streams : w.streams[i].name = name

StreamNames(w) == {w.streams[i].name : i \in DOMAIN w.streams}

\* sha256(name) & ((1<<64)-1), scaled to Bits bits
NameHash(name) ==
    (CASE name = "a0" -> 5
       [] name = "a1" -> 3
       [] name = "a2" -> 6
       [] OTHER -> 0) % Pow2(Bits)

\* _derive_seed mixing in the built-in hash of the name, which is salted per process
derive_seed_salted(w, name) ==
    LET drawn == Output(w.master)
        h == Xor(NameHash(name), w.salt) % Pow2(Bits)
    IN  [seed |-> Xor(drawn, h) % Pow2(Bits - 1),
         w |-> [w EXCEPT !.master = Advance(@)]]

\* _derive_seed mixing in the number of streams the manager holds
derive_seed_by_count(w, name) ==
    LET drawn == Output(w.master)
        h == NameHash(name)
    IN  [seed |-> Xor(Xor(drawn, h), Len(w.streams)) % Pow2(Bits - 1),
         w |-> [w EXCEPT !.master = Advance(@)]]

\* RNGManager._derive_seed: one master output, mixed with the hash of the name
derive_seed(w, name) ==
    LET drawn == Output(w.master)
        h == NameHash(name)
    IN  [seed |-> Xor(drawn, h) % Pow2(Bits - 1),
         w |-> [w EXCEPT !.master = Advance(@)]]

\* get_stream deriving a seed before it looks the name up
get_stream_eager(w, name) ==
    LET d == derive_seed(w, name)
    IN  IF ~HasStream(w, name)
        THEN [d.w EXCEPT !.streams = Append(@, RNGStream(name, d.seed))]
        ELSE d.w

\* RNGManager.get_stream (and Kernel.get_rng, which delegates to it)
get_stream(w, name) ==
    IF ~HasStream(w, name)
    THEN LET d == derive_seed(w, name)
         IN  [d.w EXCEPT !.streams = Append(@, RNGStream(name, d.seed))]
    ELSE w

\* RNGStream.random on the stream get_stream(name) returns: the value drawn
NextDraw(w, name) == Output(w.streams[StreamIdx(w, name)].rng)

\* random with one generator shared by all the streams
stream_random_shared(w, name) ==
    [w EXCEPT !.streams = [i \in DOMAIN @ |-> [@[i] EXCEPT !.rng = Advance(@)]]]

\* RNGStream.random: the world after the draw
stream_random(w, name) ==
    [w EXCEPT !.streams[StreamIdx(w, name)].rng = Advance(@)]

\* RNGManager.get_state
get_state(w) ==
    [keys |-> {"master_state", "streams"},
     master_state |-> Token(w.master),
     streams |-> [i \in DOMAIN w.streams |->
                    <<w.streams[i].name, Token(w.streams[i].rng)>>]]

Raise(w, exc) == [w EXCEPT !.err = exc]

Return(w) == [w EXCEPT !.err = "none"]

\* the import of one stream that creates a missing stream and skips an existing one
set_stream_state_new_only(w, name, tok) ==
    IF HasStream(w, name)
    THEN w
    ELSE [w EXCEPT !.streams =
            Append(@, [name |-> name, seed |-> 0, rng |-> [s |-> tok.s, n |-> tok.n]])]

\* RNGStream.set_state on an existing stream, or on a new RNGStream(0)
set_stream_state(w, name, tok) ==
    IF HasStream(w, name)
    THEN [w EXCEPT !.streams[StreamIdx(w, name)].rng = [s |-> tok.s, n |-> tok.n]]
    ELSE [w EXCEPT !.streams =
            Append(@, [name |-> name, seed |-> 0, rng |-> [s |-> tok.s, n |-> tok.n]])]

\* the loop of RNGManager.set_state over the imported streams, in dict order;
\* random.setstate raises on a malformed token and the loop ends there
RECURSIVE set_streams(_, _, _)
set_streams(w, items, i) ==
    IF i > Len(items) THEN Return(w)
    ELSE IF ~items[i][2].ok THEN Raise(w, "ValueError")
    ELSE set_streams(set_stream_state(w, items[i][1], items[i][2]), items, i + 1)

\* set_state that imports the streams and leaves the master stream alone
set_state_no_master(w, st) ==
    IF "master_state" \notin st.keys THEN Raise(w, "KeyError")
    ELSE IF ~st.master_state.ok THEN Raise(w, "ValueError")
    ELSE set_streams(w, IF "streams" \in st.keys THEN st.streams ELSE <<>>, 1)

\* set_state that replaces the stream table by the imported one
set_state_replacing(w, st) ==
    IF "master_state" \notin st.keys THEN Raise(w, "KeyError")
    ELSE IF ~st.master_state.ok THEN Raise(w, "ValueError")
    ELSE LET w1 == [w EXCEPT !.master = [s |-> st.master_state.s,
                                         n |-> st.master_state.n],
                             !.streams = <<>>]
         IN  set_streams(w1, IF "streams" \in st.keys THEN st.streams ELSE <<>>, 1)

\* RNGManager.set_state
set_state(w, st) ==
    IF "master_state" \notin st.keys THEN Raise(w, "KeyError")
    ELSE IF ~st.master_state.ok THEN Raise(w, "ValueError")
    ELSE LET w1 == [w EXCEPT !.master = [s |-> st.master_state.s,
                                         n |-> st.master_state.n]]
         IN  set_streams(w1, IF "streams" \in st.keys THEN st.streams ELSE <<>>, 1)

----------------------------------------------------------------------------
(* Kernel *)

\* Kernel.__init__; salt is the hash salt of the process the kernel runs in
Kernel(seed, phases, salt) ==
    [time |-> 0,
     master |-> NewRandom(seed),
     streams |-> <<>>,
     entities |-> <<>>,
     phases |-> IF phases = <<>> THEN DefaultPhases ELSE phases,
     phase_registrations |->
        [p \in {(IF phases = <<>> THEN DefaultPhases ELSE phases)[i] :
                   i \in DOMAIN (IF phases = <<>> THEN DefaultPhases ELSE phases)}
           |-> <<>>],
     counter |-> [e \in Handles |-> 0],
     pc |-> "idle",
     cur |-> 0,
     phase |-> None,
     pending |-> <<>>,
     order |-> <<>>,
     invoked |-> <<>>,
     inner |-> 0,
     err |-> "none",
     salt |-> salt]

IsRegistered(w, entity) == \E i \in DOMAIN w.entities : w.entities[i][2] = entity

\* register with the new pair put at the head of the phase list
register_prepend(w, entity_id, entity, phase) ==
    LET ph == IF phase = None THEN w.phases[1] ELSE phase
    IN  IF ~InSeq(ph, w.phases) THEN Raise(w, "ValueError: Unknown phase")
        ELSE IF IsRegistered(w, entity) THEN Return(w)
        ELSE Return([w EXCEPT !.entities = Append(@, <<entity_id, entity>>),
                              !.phase_registrations[ph] =
                                  << <<entity_id, entity>> >> \o @])

\* register without the duplicate check
register_nodedup(w, entity_id, entity, phase) ==
    LET ph == IF phase = None THEN w.phases[1] ELSE phase
    IN  IF ~InSeq(ph, w.phases) THEN Raise(w, "ValueError: Unknown phase")
        ELSE Return([w EXCEPT !.entities = Append(@, <<entity_id, entity>>),
                              !.phase_registrations[ph] =
                                  Append(@, <<entity_id, entity>>)])

\* register with the phase checked after the global registry was extended
register_late_check(w, entity_id, entity, phase) ==
    LET ph == IF phase = None THEN w.phases[1] ELSE phase
    IN  IF IsRegistered(w, entity) THEN Return(w)
        ELSE LET w1 == [w EXCEPT !.entities = Append(@, <<entity_id, entity>>)]
             IN  IF ~InSeq(ph, w.phases) THEN Raise(w1, "ValueError: Unknown phase")
                 ELSE Return([w1 EXCEPT !.phase_registrations[ph] =
                                           Append(@, <<entity_id, entity>>)])

\* Kernel.register
register(w, entity_id, entity, phase) ==
    LET ph == IF phase = None THEN w.phases[1] ELSE phase
    IN  IF ~InSeq(ph, w.phases) THEN Raise(w, "ValueError: Unknown phase")
        ELSE IF IsRegistered(w, entity) THEN Return(w)
        ELSE LET w1 == [w EXCEPT !.entities = Append(@, <<entity_id, entity>>)]
             IN  IF ph \notin DOMAIN w.phase_registrations
                 THEN Raise(w1, "KeyError")
                 ELSE Return([w1 EXCEPT !.phase_registrations[ph] =
                                           Append(@, <<entity_id, entity>>)])

\* the loop of Kernel.unregister over the declared phases
RECURSIVE unregister_phases(_, _, _)
unregister_phases(w, entity, i) ==
    IF i > Len(w.phases) THEN Return(w)
    ELSE IF w.phases[i] \notin DOMAIN w.phase_registrations THEN Raise(w, "KeyError")
    ELSE unregister_phases(
            [w EXCEPT !.phase_registrations[w.phases[i]] = SelectPairs(@, entity)],
            entity, i + 1)

\* Kernel.unregister
unregister(w, entity) ==
    unregister_phases([w EXCEPT !.entities = SelectPairs(@, entity)], entity, 1)

\* Kernel.snapshot: the pickled dict
snapshot(w) ==
    [loads |-> TRUE,
     keys |-> {"time", "rng", "phases"},
     time |-> w.time,
     rng |-> get_state(w),
     phases |-> w.phases]

\* restore that also empties the registry and builds the lists of the new phases
restore_clearing(w, blob) ==
    IF ~blob.loads THEN Raise(w, "UnpicklingError")
    ELSE IF "time" \notin blob.keys THEN Raise(w, "KeyError")
    ELSE LET ps == IF "phases" \in blob.keys THEN blob.phases ELSE w.phases
             w1 == [w EXCEPT !.time = blob.time,
                             !.phases = ps,
                             !.entities = <<>>,
                             !.phase_registrations =
                                 [p \in {ps[i] : i \in DOMAIN ps} |-> <<>>]]
         IN  IF "rng" \notin blob.keys THEN Raise(w1, "KeyError")
             ELSE set_state(w1, blob.rng)

\* Kernel.restore
restore(w, blob) ==
    IF ~blob.loads THEN Raise(w, "UnpicklingError")
    ELSE IF "time" \notin blob.keys THEN Raise(w, "KeyError")
    ELSE LET w1 == [w EXCEPT !.time = blob.time,
                             !.phases = IF "phases" \in blob.keys
                                        THEN blob.phases ELSE @]
         IN  IF "rng" \notin blob.keys THEN Raise(w1, "KeyError")
             ELSE set_state(w1, blob.rng)

----------------------------------------------------------------------------
(* Kernel.step, one entity invocation at a time *)

\* the position of an entity in the global registry (0 when it is not there)
RankOf(s, entity) ==
    IF \E i \in DOMAIN s : s[i] = entity
    THEN CHOOSE i \in DOMAIN s : s[i] = entity
    ELSE 0

\* Kernel.step, line 135: the loop over the phases reaches phase number i and
\* copies its registration list; past the last phase the tick completes
enter_phase(w, i) ==
    IF i > Len(w.phases)
    THEN Return([w EXCEPT !.time = @ + 1, !.pc = "idle", !.cur = 0,
                          !.phase = None, !.pending = <<>>, !.order = <<>>,
                          !.invoked = <<>>, !.inner = 0])
    ELSE IF w.phases[i] \notin DOMAIN w.phase_registrations
    THEN Raise([w EXCEPT !.pc = "idle", !.cur = 0, !.phase = None, !.pending = <<>>,
                         !.order = <<>>, !.invoked = <<>>, !.inner = 0], "KeyError")
    ELSE [w EXCEPT !.pc = "step", !.cur = i, !.phase = w.phases[i],
                   !.pending = w.phase_registrations[w.phases[i]],
                   !.order = HandlesOf(w.entities)]

\* Kernel.step, first line: a new tick begins
step_begin(w) ==
    enter_phase([w EXCEPT !.invoked = <<>>, !.inner = 0, !.err = "none"], 1)

\* Kernel.step, lines 135-143: the next entity of the copied list is taken
take_entity(w) ==
    [w EXCEPT !.pending = Tail(@),
              !.invoked = Append(@, [e |-> Head(w.pending)[2],
                                     id |-> Head(w.pending)[1],
                                     phase |-> w.phase,
                                     rank |-> RankOf(w.order, Head(w.pending)[2])])]

\* a tick that counts itself although an entity raised (time += 1 in a finally)
step_raise_counted(w, exc) ==
    Raise([w EXCEPT !.time = @ + 1, !.pc = "idle", !.cur = 0, !.phase = None,
                    !.pending = <<>>, !.order = <<>>], exc)

\* Kernel.step, lines 138-143: the entity's step raised; nothing catches it, so
\* the loops end, line 144 is not reached and the exception leaves step
step_raise(w, exc) ==
    Raise([w EXCEPT !.pc = "idle", !.cur = 0, !.phase = None,
                    !.pending = <<>>, !.order = <<>>], exc)

----------------------------------------------------------------------------
(* CounterAgent *)

\* the name a CounterAgent asks its stream under
AgentId(e) == e

\* CounterAgent.act
act(w, e) ==
    LET w1 == get_stream(w, AgentId(e))
        v == NextDraw(w1, AgentId(e))
        w2 == stream_random(w1, AgentId(e))
    IN  [w2 EXCEPT !.counter[e] = @ + v]

\* CounterAgent.snapshot of every agent in `agents`
agent_states(w, agents) == [e \in agents |-> w.counter[e]]

\* CounterAgent.restore of every agent from the saved states
agents_restore(w, states) ==
    [w EXCEPT !.counter = [e \in Handles |->
                             IF e \in DOMAIN states THEN states[e] ELSE w.counter[e]]]

----------------------------------------------------------------------------
(* The scheduler specification: one kernel, its caller registering and       *)
(* unregistering entities between ticks, and entities whose step may itself  *)
(* call register and unregister.                                             *)

\* the phase lists a kernel is constructed with (<<>>: the default)
PhaseLists == {<<>>, <<"commit", "perceive">>}

\* the phase arguments a caller passes to register
PhaseArgs == PhaseNames \cup {None, "nonexistent"}

\* the call that led to the current state: the operation, the entity, id and
\* phase it was given, and whether that entity was registered before the call
Call(op, e, id, ph, was) == [op |-> op, e |-> e, id |-> id, ph |-> ph, was |-> was]

NoCall == Call("none", None, None, None, FALSE)

Init ==
    /\ \E P \in PhaseLists : sim = [i \in Inst |-> Kernel(0, P, 0)]
    /\ snap = <<>>
    /\ plan = <<>>
    /\ prog = <<>>
    /\ seen = <<>>
    /\ last = NoCall

\* a call from inside a step when the phase loop walks the list itself, not a
\* copy: what the call appended to the running phase's list is still to be invoked
Inner_nocopy(w, w1) ==
    [w1 EXCEPT !.err = w.err, !.inner = w.inner + 1,
               !.pending = @ \o SelectSeq(w1.phase_registrations[w.phase],
                                LAMBDA p : ~InSeq(p, w.phase_registrations[w.phase]))]

\* a call an entity makes from inside its step: its outcome stays with the entity
Inner(w, w1) == [w1 EXCEPT !.err = w.err, !.inner = w.inner + 1]

\* the caller: kernel.register(id, e, ph)
Register(i, id, e, ph) ==
    /\ sim[i].pc = "idle"
    /\ sim' = [sim EXCEPT ![i] = register(@, id, e, ph)]
    /\ last' = Call("register", e, id, ph, IsRegistered(sim[i], e))
    /\ UNCHANGED <<snap, plan, prog, seen>>

\* the caller: kernel.unregister(e)
Unregister(i, e) ==
    /\ sim[i].pc = "idle"
    /\ sim' = [sim EXCEPT ![i] = unregister(@, e)]
    /\ last' = Call("unregister", e, None, None, IsRegistered(sim[i], e))
    /\ UNCHANGED <<snap, plan, prog, seen>>

\* the caller: kernel.step() begins
StepBegin(i) ==
    /\ sim[i].pc = "idle"
    /\ sim[i].time < MaxTime
    /\ sim' = [sim EXCEPT ![i] = step_begin(@)]
    /\ last' = Call("step", None, None, None, FALSE)
    /\ UNCHANGED <<snap, plan, prog, seen>>

\* an entity whose step leaves the registry alone
InvokePlain(i) ==
    /\ sim[i].pc = "step"
    /\ sim[i].pending # <<>>
    /\ sim' = [sim EXCEPT ![i] = take_entity(@)]
    /\ last' = Call("invoke", Head(sim[i].pending)[2], None, None, FALSE)
    /\ UNCHANGED <<snap, plan, prog, seen>>

\* an entity whose step unregisters itself and registers itself into phase ph
InvokeMove(i, ph) ==
    /\ sim[i].pc = "step"
    /\ sim[i].pending # <<>>
    /\ sim[i].inner < MaxInner
    /\ InSeq(ph, sim[i].phases)
    /\ LET w == take_entity(sim[i])
           me == Head(sim[i].pending)
       IN  /\ sim' = [sim EXCEPT ![i] =
                        Inner(w, register(unregister(w, me[2]), me[1], me[2], ph))]
           /\ last' = Call("invoke-move", me[2], me[1], ph, IsRegistered(w, me[2]))
    /\ UNCHANGED <<snap, plan, prog, seen>>

\* an entity whose step unregisters entity o
InvokeUnregister(i, o) ==
    /\ sim[i].pc = "step"
    /\ sim[i].pending # <<>>
    /\ sim[i].inner < MaxInner
    /\ LET w == take_entity(sim[i])
       IN  /\ sim' = [sim EXCEPT ![i] = Inner(w, unregister(w, o))]
           /\ last' = Call("invoke-unregister", o, None, None, IsRegistered(w, o))
    /\ UNCHANGED <<snap, plan, prog, seen>>

\* an entity whose step registers entity o
InvokeRegister(i, id, o, ph) ==
    /\ sim[i].pc = "step"
    /\ sim[i].pending # <<>>
    /\ sim[i].inner < MaxInner
    /\ InSeq(ph, sim[i].phases)
    /\ LET w == take_entity(sim[i])
       IN  /\ sim' = [sim EXCEPT ![i] = Inner(w, register(w, id, o, ph))]
           /\ last' = Call("invoke-register", o, id, ph, IsRegistered(w, o))
    /\ UNCHANGED <<snap, plan, prog, seen>>

\* the copied list of the phase is exhausted: the next phase begins
StepNextPhase(i) ==
    /\ sim[i].pc = "step"
    /\ sim[i].pending = <<>>
    /\ sim[i].cur < Len(sim[i].phases)
    /\ sim' = [sim EXCEPT ![i] = enter_phase(@, sim[i].cur + 1)]
    /\ last' = Call("next-phase", None, None, None, FALSE)
    /\ UNCHANGED <<snap, plan, prog, seen>>

\* the last phase is exhausted: time advances and step returns
StepEnd(i) ==
    /\ sim[i].pc = "step"
    /\ sim[i].pending = <<>>
    /\ sim[i].cur = Len(sim[i].phases)
    /\ sim' = [sim EXCEPT ![i] = enter_phase(@, sim[i].cur + 1)]
    /\ last' = Call("step-end", None, None, None, FALSE)
    /\ UNCHANGED <<snap, plan, prog, seen>>

Next ==
    \/ \E id \in Ids, e \in Handles, ph \in PhaseArgs : Register(1, id, e, ph)
    \/ \E e \in Handles : Unregister(1, e)
    \/ StepBegin(1)
    \/ InvokePlain(1)
    \/ \E ph \in PhaseNames : InvokeMove(1, ph)
    \/ \E o \in Handles : InvokeUnregister(1, o)
    \/ \E id \in Ids, o \in Handles, ph \in PhaseNames : InvokeRegister(1, id, o, ph)
    \/ StepNextPhase(1)
    \/ StepEnd(1)

Spec == Init /\ [][Next]_vars

----------------------------------------------------------------------------
(* Claims on the scheduler *)

K == sim[1]

\* the position of a phase name in the declared phase list
PhasePos(w, ph) == RankOf(w.phases, ph)

\* the entities invoked so far in the running tick, in order
InvokedHandles(w) == [n \in DOMAIN w.invoked |-> w.invoked[n].e]

\* the last phase of the running tick has invoked its last entity
TickComplete(w) ==
    /\ w.pc = "step"
    /\ w.pending = <<>>
    /\ w.cur = Len(w.phases)

\* C5: within a tick, of any two invocations the earlier one is of an earlier
\* declared phase, or of the same phase and of an entity registered earlier
\* (a lower position in the global registry when the phase began).
C5_InvocationOrder ==
    \A m, n \in DOMAIN K.invoked :
        m < n =>
            LET a == K.invoked[m]
                b == K.invoked[n]
            IN  /\ PhasePos(K, a.phase) >= 1
                /\ a.rank >= 1
                /\ \/ PhasePos(K, a.phase) < PhasePos(K, b.phase)
                   \/ /\ a.phase = b.phase
                      /\ a.rank < b.rank

\* C5, the example: default phases, a0 registered in "commit" and then a1 in
\* "perceive"; the tick has invoked a1 and then a0.
C5_Witness ==
    /\ K.phases = DefaultPhases
    /\ K.entities = << <<"a0", "a0">>, <<"a1", "a1">> >>
    /\ K.phase_registrations["commit"] = << <<"a0", "a0">> >>
    /\ K.phase_registrations["perceive"] = << <<"a1", "a1">> >>
    /\ TickComplete(K)
    /\ K.inner = 0
    /\ InvokedHandles(K) = <<"a1", "a0">>

\* the phase lists that hold entity e
PhasesHolding(w, e) ==
    {p \in DOMAIN w.phase_registrations :
        InSeq(e, HandlesOf(w.phase_registrations[p]))}

SameRegistry(w1, w2) ==
    /\ w1.entities = w2.entities
    /\ w1.phase_registrations = w2.phase_registrations

\* C6: a register call on an entity that is already registered, by the caller
\* or by an entity during a tick, under any id and into any declared phase,
\* returns and changes neither the global registry nor any phase list; and a
\* tick during which no entity touched the registry has invoked every
\* registered entity exactly once, in the phase whose list holds it, and no
\* other entity.
C6_NoDuplicate ==
    [][/\ (/\ last'.op \in {"register", "invoke-register"}
           /\ last'.was
           /\ (last'.ph = None \/ InSeq(last'.ph, K.phases)))
          => (SameRegistry(K', K) /\ K'.err = "none")
       /\ (last'.op = "step-end" /\ K.inner = 0)
          => \A e \in Handles :
                IF IsRegistered(K, e)
                THEN /\ Count(e, InvokedHandles(K)) = 1
                     /\ \A n \in DOMAIN K.invoked :
                           K.invoked[n].e = e =>
                               PhasesHolding(K, e) = {K.invoked[n].phase}
                ELSE Count(e, InvokedHandles(K)) = 0
      ]_vars

\* C6: a0, registered under id "a0" in "perceive", was just registered again
\* under id "a1" into "commit", and the call returned
C6_Witness ==
    /\ last = Call("register", "a0", "a1", "commit", TRUE)
    /\ K.err = "none"
    /\ K.entities = << <<"a0", "a0">> >>
    /\ PhasesHolding(K, "a0") = {"perceive"}

\* C7: in every tick each entity handle is invoked at most once.
C7_AtMostOncePerTick ==
    \A e \in Handles : Count(e, InvokedHandles(K)) <= 1

\* C8: register with a phase that is not in the declared phase list raises
\* the unknown-phase error (a ValueError in the source) and leaves the kernel,
\* its global registry and every phase list included, as it was.
C8_BadPhase ==
    [][(/\ last'.op = "register"
        /\ last'.ph # None
        /\ ~InSeq(last'.ph, K.phases))
       => /\ K'.err = "ValueError: Unknown phase"
          /\ SameRegistry(K', K)
          /\ K' = Raise(K, "ValueError: Unknown phase")
          /\ (~last'.was => ~IsRegistered(K', last'.e))
      ]_vars

\* C8: register("a1", a1, "nonexistent") was just called on a kernel that holds
\* a0 only; it raised and a1 is not registered
C8_Witness ==
    /\ last = Call("register", "a1", "a1", "nonexistent", FALSE)
    /\ K.err = "ValueError: Unknown phase"
    /\ IsRegistered(K, "a0")
    /\ ~IsRegistered(K, "a1")
    /\ PhasesHolding(K, "a1") = {}

----------------------------------------------------------------------------
(* The stream-manager specification: one kernel whose caller asks for        *)
(* streams by name and draws from them.  seen[name] is the sequence of the   *)
(* values the caller has drawn from the stream of that name.                 *)

Names == {"a0", "a1", "a2"}

InitRng ==
    /\ \E S \in Seeds : sim = [i \in Inst |-> Kernel(S, <<>>, 0)]
    /\ snap = <<>>
    /\ plan = <<>>
    /\ prog = <<>>
    /\ seen = [n \in Names |-> <<>>]
    /\ last = NoCall

\* the caller: kernel.get_rng(name)
GetRng(i, name) ==
    /\ sim' = [sim EXCEPT ![i] = get_stream(@, name)]
    /\ last' = Call("get_rng", name, None, None, HasStream(sim[i], name))
    /\ UNCHANGED <<snap, plan, prog, seen>>

\* the caller: kernel.get_rng(name).random()
Draw(i, name) ==
    /\ HasStream(sim[i], name)
    /\ Len(seen[name]) < MaxDraws
    /\ sim' = [sim EXCEPT ![i] = stream_random(@, name)]
    /\ seen' = [seen EXCEPT ![name] = Append(@, NextDraw(sim[i], name))]
    /\ last' = Call("draw", name, None, None, TRUE)
    /\ UNCHANGED <<snap, plan, prog>>

NextRng ==
    \/ \E name \in Names : GetRng(1, name)
    \/ \E name \in Names : Draw(1, name)

SpecRng == InitRng /\ [][NextRng]_vars

StreamOf(w, name) == w.streams[StreamIdx(w, name)]

\* C9: get_rng on a name that was already derived changes nothing: the master
\* position, the names and every stream's seed and position are as before, so
\* the value the next draw from that name yields is the same after any number
\* of repeated lookups.
C9_IdempotentDerivation ==
    [][(last'.op = "get_rng" /\ last'.was)
       => /\ K' = K
          /\ NextDraw(K', last'.e) = NextDraw(K, last'.e)
      ]_vars

\* C9: get_rng("a0") was just repeated on a kernel that has derived a0 and a1
\* and has drawn from a0
C9_Witness ==
    /\ last = Call("get_rng", "a0", None, None, TRUE)
    /\ HasStream(K, "a0")
    /\ HasStream(K, "a1")
    /\ Len(seen["a0"]) >= 1
    /\ K.master.n = 2

\* C10: a draw from stream b leaves every other stream, the set of names and
\* the master stream as they were; and the values drawn from a stream a are
\* the outputs 0, 1, 2, ... of the generator of a's seed, whatever was drawn
\* from the other streams in between.
C10_StreamIsolation ==
    [][/\ last'.op = "draw"
          => /\ K'.master = K.master
             /\ StreamNames(K') = StreamNames(K)
             /\ \A a \in StreamNames(K) \ {last'.e} :
                   StreamOf(K', a) = StreamOf(K, a)
       /\ \A a \in StreamNames(K') :
             seen'[a] = [n \in 1..StreamOf(K', a).rng.n |->
                            Gen(StreamOf(K', a).seed, n - 1)]
      ]_vars

\* C10: a0 and a1 are both derived, a draw from a1 was just made, and both
\* streams have been drawn from
C10_Witness ==
    /\ last = Call("draw", "a1", None, None, TRUE)
    /\ HasStream(K, "a0")
    /\ Len(seen["a0"]) >= 1
    /\ Len(seen["a1"]) >= 2

----------------------------------------------------------------------------
(* The restore specification: one kernel running CounterAgents, whose caller *)
(* takes snapshots and restores them, or blobs that are malformed.  prog is  *)
(* the number of ticks begun.                                                *)

\* the ways a blob handed to restore differs from the snapshot it came from
BlobKinds ==
    {"valid", "truncated", "no-time", "no-phases", "no-rng", "no-master",
     "no-streams", "bad-master", "bad-stream"}

\* the snapshot b as it reaches restore: kind names what was lost or damaged,
\* j the stream whose token was damaged
Corrupt(b, kind, j) ==
    CASE kind = "valid" -> b
      [] kind = "truncated" -> [b EXCEPT !.loads = FALSE]
      [] kind = "no-time" -> [b EXCEPT !.keys = @ \ {"time"}]
      [] kind = "no-phases" -> [b EXCEPT !.keys = @ \ {"phases"}]
      [] kind = "no-rng" -> [b EXCEPT !.keys = @ \ {"rng"}]
      [] kind = "no-master" -> [b EXCEPT !.rng.keys = @ \ {"master_state"}]
      [] kind = "no-streams" -> [b EXCEPT !.rng.keys = @ \ {"streams"}]
      [] kind = "bad-master" -> [b EXCEPT !.rng.master_state = BadToken]
      [] kind = "bad-stream" ->
            IF j \in DOMAIN b.rng.streams
            THEN [b EXCEPT !.rng.streams[j] = <<@[1], BadToken>>]
            ELSE b

InitRestore ==
    /\ \E S \in Seeds : sim = [i \in Inst |-> Kernel(S, <<>>, 0)]
    /\ snap = <<>>
    /\ plan = <<>>
    /\ prog = 0
    /\ seen = <<>>
    /\ last = NoCall

\* the caller: kernel.register(a.agent_id, a, ph) for an agent not yet registered
RegisterAgent(i, e, ph) ==
    /\ ~IsRegistered(sim[i], e)
    /\ Register(i, AgentId(e), e, ph)

\* the caller: kernel.step() begins
RunStepBegin(i) ==
    /\ sim[i].pc = "idle"
    /\ prog < MaxSteps
    /\ prog' = prog + 1
    /\ sim' = [sim EXCEPT ![i] = step_begin(@)]
    /\ last' = Call("step", None, None, None, FALSE)
    /\ UNCHANGED <<snap, plan, seen>>

\* the next entity is a CounterAgent: step_phase -> step -> act
InvokeAct(i) ==
    /\ sim[i].pc = "step"
    /\ sim[i].pending # <<>>
    /\ sim' = [sim EXCEPT ![i] = act(take_entity(@), Head(sim[i].pending)[2])]
    /\ last' = Call("invoke", Head(sim[i].pending)[2], None, None, FALSE)
    /\ UNCHANGED <<snap, plan, prog, seen>>

\* the caller: Snapshot(kernel.snapshot(), {a.agent_id: a.snapshot() ...})
TakeSnapshot(i) ==
    /\ sim[i].pc = "idle"
    /\ snap' = <<[kernel_blob |-> snapshot(sim[i]),
                  agent_states |-> agent_states(sim[i], Handles)]>>
    /\ last' = Call("snapshot", None, None, None, FALSE)
    /\ UNCHANGED <<sim, plan, prog, seen>>

\* the caller: kernel.restore(blob)
Restore(i, kind, j) ==
    /\ sim[i].pc = "idle"
    /\ snap # <<>>
    /\ kind = "bad-stream" <=> j \in DOMAIN snap[1].kernel_blob.rng.streams
    /\ sim' = [sim EXCEPT ![i] = restore(@, Corrupt(snap[1].kernel_blob, kind, j))]
    /\ last' = Call("restore", None, None, None, FALSE)
    /\ UNCHANGED <<snap, plan, prog, seen>>

NextRestore ==
    \/ \E e \in Handles, ph \in {None, "commit"} : RegisterAgent(1, e, ph)
    \/ RunStepBegin(1)
    \/ InvokeAct(1)
    \/ StepNextPhase(1)
    \/ StepEnd(1)
    \/ TakeSnapshot(1)
    \/ \E kind \in BlobKinds, j \in 0..Cardinality(Handles) : Restore(1, kind, j)

SpecRestore == InitRestore /\ [][NextRestore]_vars

\* C4: whenever restore fails, the kernel is left exactly as it was before the
\* call: time, phase list, master position, stream names and every stream's
\* position.
C4_AllOrNothing ==
    [][(last'.op = "restore" /\ K'.err # "none")
       => /\ K'.time = K.time
          /\ K'.phases = K.phases
          /\ K'.master = K.master
          /\ K'.streams = K.streams
      ]_vars

----------------------------------------------------------------------------
(* The determinism specification: two independent runs of one program.  The  *)
(* program builds a Kernel with (S, P), makes the register calls R and runs  *)
(* ticks; the two runs are in processes with hash salts of their own and     *)
(* advance independently.  prog[i] is how far run i has come.                *)

Salts == {0, 1}

\* the register calls of a program: agents under their own id
RegCalls == {<<AgentId(e), e, ph>> : e \in Handles, ph \in {None, "commit"}}

RegSeqs == {<<>>} \cup {<<c>> : c \in RegCalls}
                  \cup {<<c, d>> : c \in RegCalls, d \in RegCalls}

InitDet ==
    /\ \E S \in Seeds, P \in PhaseLists, R \in RegSeqs :
          plan = [S |-> S, P |-> P, R |-> R]
    /\ \E salt \in [Inst -> Salts] :
          sim = [i \in Inst |-> Kernel(plan.S, plan.P, salt[i])]
    /\ prog = [i \in Inst |-> [reg |-> 0, ticks |-> 0]]
    /\ snap = <<>>
    /\ seen = <<>>
    /\ last = NoCall

\* run i makes its next register call
DetRegister(i) ==
    /\ prog[i].reg < Len(plan.R)
    /\ LET c == plan.R[prog[i].reg + 1]
       IN  /\ sim' = [sim EXCEPT ![i] = register(@, c[1], c[2], c[3])]
           /\ last' = Call("register", c[2], c[1], c[3], IsRegistered(sim[i], c[2]))
    /\ prog' = [prog EXCEPT ![i].reg = @ + 1]
    /\ UNCHANGED <<snap, plan, seen>>

\* run i begins its next tick
DetStepBegin(i) ==
    /\ prog[i].reg = Len(plan.R)
    /\ sim[i].pc = "idle"
    /\ prog[i].ticks < MaxK
    /\ sim' = [sim EXCEPT ![i] = step_begin(@)]
    /\ prog' = [prog EXCEPT ![i].ticks = @ + 1]
    /\ last' = Call("step", None, None, None, FALSE)
    /\ UNCHANGED <<snap, plan, seen>>

NextDet ==
    \E i \in Inst :
        \/ DetRegister(i)
        \/ DetStepBegin(i)
        \/ InvokeAct(i)
        \/ StepNextPhase(i)
        \/ StepEnd(i)

SpecDet == InitDet /\ [][NextDet]_vars

\* what a run has produced: everything of its world but the process's salt
Outcome(w) == [w EXCEPT !.salt = 0]

----------------------------------------------------------------------------
(* The round-trip specification: run 1 builds a Kernel with seed S, makes    *)
(* the register calls R, runs k ticks and exports a Snapshot, then goes on;  *)
(* run 2 builds a fresh Kernel with any seed S2, makes the same register     *)
(* calls, restores the Snapshot (kernel blob, then every agent's state) and  *)
(* goes on.  prog[i].ticks counts the ticks run i began after the export.    *)

InitRoundTrip ==
    /\ \E S \in Seeds, S2 \in Seeds, R \in RegSeqs, k \in 0..MaxK :
          plan = [S |-> S, S2 |-> S2, R |-> R, k |-> k]
    /\ sim = [i \in Inst |-> Kernel(IF i = 1 THEN plan.S ELSE plan.S2, <<>>, 0)]
    /\ prog = [i \in Inst |-> [reg |-> 0, pre |-> 0, ticks |-> 0, restored |-> FALSE]]
    /\ snap = <<>>
    /\ seen = <<>>
    /\ last = NoCall

\* run i makes its next register call (run 2 before or after its restore)
RtRegister(i) ==
    /\ sim[i].pc = "idle"
    /\ prog[i].reg < Len(plan.R)
    /\ LET c == plan.R[prog[i].reg + 1]
       IN  /\ sim' = [sim EXCEPT ![i] = register(@, c[1], c[2], c[3])]
           /\ last' = Call("register", c[2], c[1], c[3], IsRegistered(sim[i], c[2]))
    /\ prog' = [prog EXCEPT ![i].reg = @ + 1]
    /\ UNCHANGED <<snap, plan, seen>>

\* run 1 begins one of its k ticks before the export
RtStepBeginBefore ==
    /\ prog[1].reg = Len(plan.R)
    /\ sim[1].pc = "idle"
    /\ snap = <<>>
    /\ prog[1].pre < plan.k
    /\ sim' = [sim EXCEPT ![1] = step_begin(@)]
    /\ prog' = [prog EXCEPT ![1].pre = @ + 1]
    /\ last' = Call("step", None, None, None, FALSE)
    /\ UNCHANGED <<snap, plan, seen>>

\* run 1 exports: Snapshot(kernel.snapshot(), {a.agent_id: a.snapshot() ...})
RtExport ==
    /\ prog[1].reg = Len(plan.R)
    /\ sim[1].pc = "idle"
    /\ snap = <<>>
    /\ prog[1].pre = plan.k
    /\ snap' = <<[kernel_blob |-> snapshot(sim[1]),
                  agent_states |-> agent_states(sim[1], Handles)]>>
    /\ last' = Call("snapshot", None, None, None, FALSE)
    /\ UNCHANGED <<sim, plan, prog, seen>>

\* run 2 restores: kernel.restore(blob), then a.restore(state) for every agent
RtRestore ==
    /\ snap # <<>>
    /\ ~prog[2].restored
    /\ sim[2].pc = "idle"
    /\ sim' = [sim EXCEPT ![2] =
                  agents_restore(restore(@, snap[1].kernel_blob), snap[1].agent_states)]
    /\ prog' = [prog EXCEPT ![2].restored = TRUE]
    /\ last' = Call("restore", None, None, None, FALSE)
    /\ UNCHANGED <<snap, plan, seen>>

\* the original (after its export) or the restored run begins a further tick
RtStepBeginAfter(i) ==
    /\ snap # <<>>
    /\ prog[i].reg = Len(plan.R)
    /\ i = 2 => prog[2].restored
    /\ sim[i].pc = "idle"
    /\ prog[i].ticks < MaxK
    /\ sim' = [sim EXCEPT ![i] = step_begin(@)]
    /\ prog' = [prog EXCEPT ![i].ticks = @ + 1]
    /\ last' = Call("step", None, None, None, FALSE)
    /\ UNCHANGED <<snap, plan, seen>>

NextRoundTrip ==
    \/ \E i \in Inst : RtRegister(i)
    \/ RtStepBeginBefore
    \/ RtExport
    \/ RtRestore
    \/ \E i \in Inst : RtStepBeginAfter(i)
    \/ \E i \in Inst : InvokeAct(i)
    \/ \E i \in Inst : StepNextPhase(i)
    \/ \E i \in Inst : StepEnd(i)

SpecRoundTrip == InitRoundTrip /\ [][NextRoundTrip]_vars

\* the generator states of the named streams, by name
Positions(w) == [n \in StreamNames(w) |-> StreamOf(w, n).rng]

\* both runs stand at a tick boundary, m ticks after the export and the restore
RtAligned ==
    /\ snap # <<>>
    /\ prog[2].restored
    /\ prog[1].reg = Len(plan.R)
    /\ prog[2].reg = Len(plan.R)
    /\ prog[1].ticks = prog[2].ticks
    /\ sim[1].pc = "idle"
    /\ sim[2].pc = "idle"

\* C2: m ticks after the export and the restore, for every k and m and every
\* seed of the fresh kernel, the original and the restored run have the same
\* logical time, the same master position, the same stream names each at the
\* same generator state (so every later draw agrees) and agents that have
\* drawn the same values.
C2_RoundTrip ==
    RtAligned
    => /\ sim[1].time = sim[2].time
       /\ sim[1].time = plan.k + prog[1].ticks
       /\ sim[1].master = sim[2].master
       /\ Positions(sim[1]) = Positions(sim[2])
       /\ sim[1].counter = sim[2].counter

\* C2: the fresh kernel had another seed, the snapshot was taken after k >= 1
\* ticks with a0 and a1 running, and both runs have made MaxK further ticks
C2_Witness ==
    /\ RtAligned
    /\ plan.S # plan.S2
    /\ plan.k >= 1
    /\ prog[2].ticks = MaxK
    /\ StreamNames(sim[2]) = {"a0", "a1"}
    /\ sim[2].counter["a0"] > snap[1].agent_states["a0"]

----------------------------------------------------------------------------
(* The rewind specification (tests/test_kernel_repro.py, the snapshot test): *)
(* one kernel; the register calls R, k ticks, a Snapshot, m ticks, the       *)
(* agents' values noted (seen), the Snapshot restored into the same kernel   *)
(* and agents, m ticks again.  prog.n counts the ticks of the current stage. *)

InitRewind ==
    /\ \E S \in Seeds, R \in RegSeqs, k \in 0..MaxK, m \in 0..MaxK :
          plan = [S |-> S, R |-> R, k |-> k, m |-> m]
    /\ sim = [i \in Inst |-> Kernel(plan.S, <<>>, 0)]
    /\ prog = [reg |-> 0, stage |-> "before", n |-> 0]
    /\ snap = <<>>
    /\ seen = <<>>
    /\ last = NoCall

\* the ticks the current stage runs
StageTicks == IF prog.stage = "before" THEN plan.k ELSE plan.m

\* the next register call, before the first tick
RwRegister ==
    /\ prog.reg < Len(plan.R)
    /\ LET c == plan.R[prog.reg + 1]
       IN  /\ sim' = [sim EXCEPT ![1] = register(@, c[1], c[2], c[3])]
           /\ last' = Call("register", c[2], c[1], c[3], IsRegistered(sim[1], c[2]))
    /\ prog' = [prog EXCEPT !.reg = @ + 1]
    /\ UNCHANGED <<snap, plan, seen>>

\* kernel.run: the next tick of the stage begins
RwStepBegin ==
    /\ prog.reg = Len(plan.R)
    /\ sim[1].pc = "idle"
    /\ prog.n < StageTicks
    /\ sim' = [sim EXCEPT ![1] = step_begin(@)]
    /\ prog' = [prog EXCEPT !.n = @ + 1]
    /\ last' = Call("step", None, None, None, FALSE)
    /\ UNCHANGED <<snap, plan, seen>>

\* after k ticks: snap = Snapshot(kernel.snapshot(), {a.agent_id: a.snapshot() ...})
RwSnapshot ==
    /\ prog.reg = Len(plan.R)
    /\ prog.stage = "before"
    /\ prog.n = plan.k
    /\ sim[1].pc = "idle"
    /\ snap' = <<[kernel_blob |-> snapshot(sim[1]),
                  agent_states |-> agent_states(sim[1], Handles)]>>
    /\ prog' = [prog EXCEPT !.stage = "first", !.n = 0]
    /\ last' = Call("snapshot", None, None, None, FALSE)
    /\ UNCHANGED <<sim, plan, seen>>

\* after m more ticks: vals_after is noted, then kernel.restore(blob) and
\* a.restore(state) for every agent
RwRestore ==
    /\ prog.stage = "first"
    /\ prog.n = plan.m
    /\ sim[1].pc = "idle"
    /\ seen' = sim[1].counter
    /\ sim' = [sim EXCEPT ![1] =
                  agents_restore(restore(@, snap[1].kernel_blob), snap[1].agent_states)]
    /\ prog' = [prog EXCEPT !.stage = "replay", !.n = 0]
    /\ last' = Call("restore", None, None, None, FALSE)
    /\ UNCHANGED <<snap, plan>>

NextRewind ==
    \/ RwRegister
    \/ RwStepBegin
    \/ InvokeAct(1)
    \/ StepNextPhase(1)
    \/ StepEnd(1)
    \/ RwSnapshot
    \/ RwRestore

SpecRewind == InitRewind /\ [][NextRewind]_vars

\* the m ticks after the restore are done
Replayed ==
    /\ prog.stage = "replay"
    /\ prog.n = plan.m
    /\ sim[1].pc = "idle"

\* C3 as claimed: for every k >= 0 and m >= 0, after the replay every agent
\* has exactly the value it had after the first k+m ticks.
C3_RewindAnyK ==
    Replayed => sim[1].counter = seen

\* the stream names a snapshot blob carries
BlobNames(b) == {b.rng.streams[n][1] : n \in DOMAIN b.rng.streams}

\* C3 as amended: for every k and m such that every stream the manager holds
\* when restore is called is in the snapshot (with CounterAgents: k >= 1, or
\* nothing drawn after the snapshot), after the replay every agent has exactly
\* the value it had after the first k+m ticks, and time is k+m.
C3_RewindSnapshotStreams ==
    (Replayed /\ StreamNames(sim[1]) \subseteq BlobNames(snap[1].kernel_blob))
    => /\ sim[1].counter = seen
       /\ sim[1].time = plan.k + plan.m

\* C3: a0 and a1 ran k >= 1 ticks before the snapshot and m >= 1 ticks after
\* it, drew values in them, and the replay is done
C3_Witness ==
    /\ Replayed
    /\ plan.k >= 1
    /\ plan.m >= 1
    /\ StreamNames(sim[1]) = {"a0", "a1"}
    /\ seen["a0"] > snap[1].agent_states["a0"]
    /\ seen["a1"] > snap[1].agent_states["a1"]

----------------------------------------------------------------------------
(* The run specification: one kernel of CounterAgents whose caller registers *)
(* agents and calls run(n).  An agent's step may raise, before or after it   *)
(* drew, and an agent may move itself to another phase.  prog is the run     *)
(* call in progress, seen[e] the invocations of e since that call began.     *)

\* the exception an entity's step raises
EntityStepError == "EntityStepError"

NoRun == [running |-> FALSE, n |-> 0, left |-> 0, t0 |-> 0, begun |-> 0]

InitRun ==
    /\ \E S \in Seeds : sim = [i \in Inst |-> Kernel(S, <<>>, 0)]
    /\ snap = <<>>
    /\ plan = <<>>
    /\ prog = NoRun
    /\ seen = [e \in Handles |-> 0]
    /\ last = NoCall

\* the caller, between two run calls: kernel.register(a.agent_id, a, ph)
RunRegister(i, e, ph) ==
    /\ ~prog.running
    /\ RegisterAgent(i, e, ph)

\* the caller: kernel.run(n) is entered
RunCall(i, n) ==
    /\ ~prog.running
    /\ sim[i].pc = "idle"
    /\ prog.begun + n <= MaxSteps
    /\ prog' = [running |-> TRUE, n |-> n, left |-> n, t0 |-> sim[i].time,
                begun |-> prog.begun]
    /\ seen' = [e \in Handles |-> 0]
    /\ sim' = [sim EXCEPT ![i] = Return(@)]
    /\ last' = Call("run", None, None, None, FALSE)
    /\ UNCHANGED <<snap, plan>>

\* Kernel.run, the loop body: the next step() begins
RunTick(i) ==
    /\ prog.running
    /\ sim[i].pc = "idle"
    /\ prog.left > 0
    /\ prog' = [prog EXCEPT !.left = @ - 1, !.begun = @ + 1]
    /\ sim' = [sim EXCEPT ![i] = step_begin(@)]
    /\ last' = Call("step", None, None, None, FALSE)
    /\ UNCHANGED <<snap, plan, seen>>

\* Kernel.run, the loop is exhausted: run returns
RunReturn(i) ==
    /\ prog.running
    /\ sim[i].pc = "idle"
    /\ prog.left = 0
    /\ prog' = [prog EXCEPT !.running = FALSE]
    /\ last' = Call("run-return", None, None, None, FALSE)
    /\ UNCHANGED <<sim, snap, plan, seen>>

\* the next entity is a CounterAgent whose step returns
RunInvokeAct(i) ==
    /\ sim[i].pc = "step"
    /\ sim[i].pending # <<>>
    /\ LET e == Head(sim[i].pending)[2]
       IN  /\ sim' = [sim EXCEPT ![i] = act(take_entity(@), e)]
           /\ seen' = [seen EXCEPT ![e] = @ + 1]
           /\ last' = Call("invoke", e, None, None, FALSE)
    /\ UNCHANGED <<snap, plan, prog>>

\* the next entity's step raises, after its draw (acted) or before it; the
\* exception leaves step and run
RunInvokeRaise(i, acted) ==
    /\ sim[i].pc = "step"
    /\ sim[i].pending # <<>>
    /\ LET e == Head(sim[i].pending)[2]
           w == take_entity(sim[i])
       IN  /\ sim' = [sim EXCEPT ![i] =
                        step_raise(IF acted THEN act(w, e) ELSE w, EntityStepError)]
           /\ seen' = [seen EXCEPT ![e] = @ + 1]
           /\ last' = Call("invoke-raise", e, None, None, acted)
    /\ prog' = [prog EXCEPT !.running = FALSE]
    /\ UNCHANGED <<snap, plan>>

\* the next entity's step unregisters the entity and registers it into phase ph
RunInvokeMove(i, ph) ==
    /\ sim[i].pc = "step"
    /\ sim[i].pending # <<>>
    /\ sim[i].inner < MaxInner
    /\ InSeq(ph, sim[i].phases)
    /\ LET w == take_entity(sim[i])
           me == Head(sim[i].pending)
       IN  /\ sim' = [sim EXCEPT ![i] =
                        Inner(w, register(unregister(w, me[2]), me[1], me[2], ph))]
           /\ seen' = [seen EXCEPT ![me[2]] = @ + 1]
           /\ last' = Call("invoke-move", me[2], me[1], ph, TRUE)
    /\ UNCHANGED <<snap, plan, prog>>

NextRun ==
    \/ \E e \in Handles, ph \in {None, "commit"} : RunRegister(1, e, ph)
    \/ \E n \in 0..MaxSteps : RunCall(1, n)
    \/ RunTick(1)
    \/ RunReturn(1)
    \/ RunInvokeAct(1)
    \/ \E acted \in BOOLEAN : RunInvokeRaise(1, acted)
    \/ \E ph \in PhaseNames : RunInvokeMove(1, ph)
    \/ StepNextPhase(1)
    \/ StepEnd(1)

SpecRun == InitRun /\ [][NextRun]_vars

\* the streams and counters of w are in w1 as they were, those of entity e aside
EffectsKept(w, w1, e) ==
    /\ \A name \in StreamNames(w) :
          /\ HasStream(w1, name)
          /\ name # AgentId(e) => StreamOf(w1, name) = StreamOf(w, name)
    /\ \A o \in Handles \ {e} : w1.counter[o] = w.counter[o]
    /\ w1.master.s = w.master.s
    /\ w1.master.n >= w.master.n
    /\ SameRegistry(w1, w)

\* C11: when an entity's step raises during a tick, the entity's own error
\* leaves step and run as it is; time is not incremented for that tick; no
\* later entity or phase of the tick is invoked; the streams derived and the
\* draws made by the entities already run in the tick are kept (and so is the
\* raising entity's own draw); and the run call makes no further tick: until
\* the caller calls run again no entity is invoked and time stands still.
C11_FailedTick ==
    [][/\ last'.op = "invoke-raise"
          => /\ K'.err = EntityStepError
             /\ K'.time = K.time
             /\ K'.pc = "idle"
             /\ K'.pending = <<>>
             /\ ~prog'.running
             /\ EffectsKept(K, K', last'.e)
             /\ (last'.was => K' = step_raise(act(take_entity(K), last'.e),
                                              EntityStepError))
       /\ (~prog.running /\ last'.op # "run")
          => /\ K'.time = K.time
             /\ seen' = seen
             /\ K'.streams = K.streams
             /\ K'.master = K.master
             /\ ~prog'.running
      ]_vars

\* C11: run(2) at time 0 with a0 in "perceive" and a1 in "commit": in the
\* first tick a0 drew and a1's step raised; one tick of the run is left undone
C11_Witness ==
    /\ last = Call("invoke-raise", "a1", None, None, FALSE)
    /\ K.err = EntityStepError
    /\ K.time = 0
    /\ prog.n = 2
    /\ prog.left = 1
    /\ ~prog.running
    /\ InvokedHandles(K) = <<"a0", "a1">>
    /\ HasStream(K, "a0")
    /\ StreamOf(K, "a0").rng.n = 1
    /\ seen = [e \in Handles |-> 1]

\* C12: a new kernel has time 0, and when a run(n) in which no entity failed
\* returns, time has grown by exactly n and every registered entity was
\* invoked exactly n times since the call.
C12_LogicalTime ==
    /\ last = NoCall => K.time = 0
    /\ last.op = "run-return"
          => /\ K.time = prog.t0 + prog.n
             /\ \A e \in Handles : IsRegistered(K, e) => seen[e] = prog.n

----------------------------------------------------------------------------
(* Further claims on the scheduler specification *)

\* C13: no two entries of the global registry carry the same entity id, and
\* no two entries of the phase lists, of one list or of two, do.
C13_UniqueIds ==
    /\ \A m, n \in DOMAIN K.entities :
          m # n => K.entities[m][1] # K.entities[n][1]
    /\ \A p, q \in DOMAIN K.phase_registrations :
          \A m \in DOMAIN K.phase_registrations[p],
             n \in DOMAIN K.phase_registrations[q] :
                (p # q \/ m # n)
                   => K.phase_registrations[p][m][1] # K.phase_registrations[q][n][1]

----------------------------------------------------------------------------
(* The phase-list specification: kernel 1 with its caller registering and    *)
(* unregistering entities, ticking, asking for streams, taking snapshots and *)
(* restoring them; kernel 2 is another kernel, built with a phase list of    *)
(* its own, whose snapshots the caller restores into kernel 1 as well.       *)

\* the names the caller asks streams for
StreamArgs == {"a0"}

InitPhases ==
    /\ \E P1, P2 \in PhaseLists :
          sim = [i \in Inst |-> IF i = 1 THEN Kernel(0, P1, 0) ELSE Kernel(1, P2, 0)]
    /\ snap = <<>>
    /\ plan = <<>>
    /\ prog = <<>>
    /\ seen = <<>>
    /\ last = NoCall

\* the caller: kernel.restore(blob) with the stored snapshot
RestoreSnapshot(i) == Restore(i, "valid", 0)

NextPhases ==
    \/ \E e \in Handles, ph \in {None, "act"} : Register(1, AgentId(e), e, ph)
    \/ \E e \in Handles : Unregister(1, e)
    \/ StepBegin(1)
    \/ InvokePlain(1)
    \/ StepNextPhase(1)
    \/ StepEnd(1)
    \/ \E name \in StreamArgs : GetRng(2, name)
    \/ \E i \in Inst : TakeSnapshot(i)
    \/ RestoreSnapshot(1)

SpecPhases == InitPhases /\ [][NextPhases]_vars

\* the generator state a token stands for
OfToken(tok) == [s |-> tok.s, n |-> tok.n]

\* C14: a restore that succeeds leaves kernel time, the phase list, the master
\* position and the position of every stream of the snapshot as the snapshot
\* has them, and leaves the global registry and every phase list, members and
\* order, as they were before the call.
C14_RestoreFrame ==
    [][(last'.op = "restore" /\ K'.err = "none")
       => LET b == snap[1].kernel_blob
          IN  /\ K'.time = b.time
              /\ K'.phases = b.phases
              /\ K'.master = OfToken(b.rng.master_state)
              /\ \A j \in DOMAIN b.rng.streams :
                    /\ HasStream(K', b.rng.streams[j][1])
                    /\ StreamOf(K', b.rng.streams[j][1]).rng
                          = OfToken(b.rng.streams[j][2])
              /\ K'.entities = K.entities
              /\ K'.phase_registrations = K.phase_registrations
      ]_vars

\* C14: kernel 1, built with the default phases, holds a0 in "act" and a1 in
\* "perceive", and was just restored from a snapshot of kernel 2
\* (phases commit, perceive; time 0; stream a0 derived from seed 1)
C14_Witness ==
    /\ last.op = "restore"
    /\ K.err = "none"
    /\ K.phases = <<"commit", "perceive">>
    /\ K.time = 0
    /\ K.master = [s |-> 1, n |-> 1]
    /\ HasStream(K, "a0")
    /\ K.entities = << <<"a0", "a0">>, <<"a1", "a1">> >>
    /\ K.phase_registrations =
          [perceive |-> << <<"a1", "a1">> >>, act |-> << <<"a0", "a0">> >>,
           commit |-> <<>>]

----------------------------------------------------------------------------
(* The import specification: two stream managers (those of kernel 1 and of   *)
(* kernel 2, seeded differently) whose callers ask for streams and draw; the *)
(* state of either is exported, and the stored state is imported into the    *)
(* manager of kernel 1.  snap is the exported state.                         *)

InitImport ==
    /\ sim = [i \in Inst |-> Kernel(i - 1, <<>>, 0)]
    /\ snap = <<>>
    /\ plan = <<>>
    /\ prog = <<>>
    /\ seen = <<>>
    /\ last = NoCall

\* the caller: kernel.get_rng(name).random()
ImportDraw(i, name) ==
    /\ HasStream(sim[i], name)
    /\ StreamOf(sim[i], name).rng.n < MaxDraws
    /\ sim' = [sim EXCEPT ![i] = stream_random(@, name)]
    /\ last' = Call("draw", name, None, None, TRUE)
    /\ UNCHANGED <<snap, plan, prog, seen>>

\* the caller: manager.get_state()
Export(i) ==
    /\ snap' = <<get_state(sim[i])>>
    /\ last' = Call("get_state", None, None, None, FALSE)
    /\ UNCHANGED <<sim, plan, prog, seen>>

\* the caller: manager.set_state(state) with the stored state
Import(i) ==
    /\ snap # <<>>
    /\ sim' = [sim EXCEPT ![i] = set_state(@, snap[1])]
    /\ last' = Call("set_state", None, None, None, FALSE)
    /\ UNCHANGED <<snap, plan, prog, seen>>

NextImport ==
    \/ \E name \in Handles : GetRng(1, name)
    \/ \E name \in StreamArgs : GetRng(2, name)
    \/ \E i \in Inst, name \in Handles : ImportDraw(i, name)
    \/ \E i \in Inst : Export(i)
    \/ Import(1)

SpecImport == InitImport /\ [][NextImport]_vars

\* the names of an exported state
StateNames(st) == {st.streams[j][1] : j \in DOMAIN st.streams}

\* C15: set_state leaves the master stream at the imported position; every
\* imported name has a stream at the imported position afterwards, whether it
\* existed before or was created by the call; the names afterwards are those
\* before and the imported ones; and every stream whose name is not in the
\* imported state is the stream it was, at the position it had.
C15_ImportFrame ==
    [][last'.op = "set_state"
       => LET st == snap[1]
          IN  /\ K'.err = "none"
              /\ K'.master = OfToken(st.master_state)
              /\ \A j \in DOMAIN st.streams :
                    /\ HasStream(K', st.streams[j][1])
                    /\ StreamOf(K', st.streams[j][1]).rng = OfToken(st.streams[j][2])
              /\ StreamNames(K') = StreamNames(K) \cup StateNames(st)
              /\ Len(K'.streams) = Cardinality(StreamNames(K'))
              /\ \A name \in StreamNames(K) \ StateNames(st) :
                    StreamOf(K', name) = StreamOf(K, name)
      ]_vars

\* C15: the manager of kernel 1 had derived a1 and drawn from it; the state
\* just imported is one of kernel 2 with a0 alone, drawn from once: a0 was
\* created (an RNGStream(0) put at the imported position), a1 is where it was,
\* and the master stream is the imported one
C15_Witness ==
    /\ last.op = "set_state"
    /\ StateNames(snap[1]) = {"a0"}
    /\ K.master = [s |-> 1, n |-> 1]
    /\ HasStream(K, "a0") /\ HasStream(K, "a1")
    /\ StreamIdx(K, "a1") = 1
    /\ StreamOf(K, "a1").rng.n = 1
    /\ StreamOf(K, "a1").rng.s = StreamOf(K, "a1").seed
    /\ StreamOf(K, "a0") = [name |-> "a0", seed |-> 0, rng |-> [s |-> 1, n |-> 1]]

----------------------------------------------------------------------------
(* Further claims on the phase-list specification *)

\* C16: unregister(e) returns; afterwards e is neither in the global registry
\* nor in any phase list, and every other entry of the registry and of each
\* phase list is where it was, in the same order; when e was not registered
\* nothing changes; and an entity a tick invokes is a registered one.
C16_UnregisterFrame ==
    [][/\ last'.op = "unregister"
          => /\ K'.err = "none"
             /\ ~IsRegistered(K', last'.e)
             /\ PhasesHolding(K', last'.e) = {}
             /\ K'.entities = SelectPairs(K.entities, last'.e)
             /\ \A p \in DOMAIN K.phase_registrations :
                   K'.phase_registrations[p]
                      = SelectPairs(K.phase_registrations[p], last'.e)
             /\ (~last'.was => SameRegistry(K', K))
       /\ last'.op = "invoke" => IsRegistered(K, last'.e)
      ]_vars

----------------------------------------------------------------------------
(* Claims on the scheduler specification: membership of a running phase *)

InvokeOps == {"invoke", "invoke-move", "invoke-unregister", "invoke-register"}

\* C17: when a phase of a tick begins, the entities still to be invoked in it
\* are the entries of the phase's list at that moment, in that order; every
\* invocation takes the first of them and leaves the rest as they are,
\* whatever the invoked entity registers or unregisters: an entity it
\* unregisters stays to be invoked, an entity it registers into the running
\* phase is not added (it is in the phase's list, and so is invoked when the
\* phase begins in the next tick).
C17_FixedAtPhaseStart ==
    [][/\ (last'.op \in {"step", "next-phase"} /\ K'.pc = "step")
          => /\ K'.pending = K.phase_registrations[K'.phase]
             /\ K'.phase_registrations = K.phase_registrations
       /\ last'.op \in InvokeOps
          => /\ K'.pending = Tail(K.pending)
             /\ K'.phase = K.phase
             /\ Len(K'.invoked) = Len(K.invoked) + 1
             /\ K'.invoked[Len(K'.invoked)].e = Head(K.pending)[2]
             /\ K'.invoked[Len(K'.invoked)].phase = K.phase
       /\ (/\ last'.op = "invoke-register"
           /\ ~last'.was
           /\ last'.ph = K.phase)
          => InSeq(last'.e, HandlesOf(K'.phase_registrations[K.phase]))
      ]_vars

\* C17: a0 and a1 are in "perceive"; in this tick a0's step unregistered a1,
\* and a1 was invoked all the same, after a0 and in that phase
C17_Witness ==
    /\ last = Call("invoke", "a1", None, None, FALSE)
    /\ ~IsRegistered(K, "a1")
    /\ IsRegistered(K, "a0")
    /\ K.phase = "perceive"
    /\ K.inner = 1
    /\ InvokedHandles(K) = <<"a0", "a1">>
    /\ K.invoked[2].phase = "perceive"

----------------------------------------------------------------------------
(* Claims on the stream-manager specification: the derivation rule *)

\* _derive_seed, lines 62-65: the seed for a name and a drawn master output
MixSeed(name, drawn) == Xor(drawn, NameHash(name)) % Pow2(Bits - 1)

\* C18: a first get_rng(n) takes exactly one output of the master stream, and
\* the new stream's seed is the mix of n and that output; a repeated get_rng
\* and a draw take none; so at any time the i-th stream derived has the seed
\* mixed from its name and the i-th master output, and the master stream has
\* given as many outputs as there are names.
C18_DerivationRule ==
    [][/\ (last'.op = "get_rng" /\ ~last'.was)
          => /\ K'.master = Advance(K.master)
             /\ Len(K'.streams) = Len(K.streams) + 1
             /\ K'.streams[Len(K'.streams)]
                   = RNGStream(last'.e, MixSeed(last'.e, Output(K.master)))
             /\ \A i \in DOMAIN K.streams : K'.streams[i] = K.streams[i]
       /\ (last'.op = "draw" \/ (last'.op = "get_rng" /\ last'.was))
          => /\ K'.master = K.master
             /\ \A i \in DOMAIN K.streams :
                   /\ K'.streams[i].name = K.streams[i].name
                   /\ K'.streams[i].seed = K.streams[i].seed
       /\ K'.master.n = Len(K'.streams)
       /\ \A i \in DOMAIN K'.streams :
             K'.streams[i].seed
                = MixSeed(K'.streams[i].name, Gen(K'.master.s, i - 1))
      ]_vars

\* C18: a1 was asked first and drawn from, then a0: a0 was just derived from
\* the second master output, and its seed is not the one it has when it is
\* asked first
C18_Witness ==
    /\ last = Call("get_rng", "a0", None, None, FALSE)
    /\ Len(K.streams) = 2
    /\ K.streams[1].name = "a1"
    /\ K.streams[1].rng.n >= 1
    /\ K.streams[2].name = "a0"
    /\ K.streams[2].seed = MixSeed("a0", Gen(K.master.s, 1))
    /\ K.streams[2].seed # MixSeed("a0", Gen(K.master.s, 0))

----------------------------------------------------------------------------
(* Claims on the phase-list specification: the registry and the phase map *)

\* C19: every handle of the global registry is in exactly one phase list,
\* once, and no other handle is in any phase list; and a tick that has run its
\* last phase has invoked every registered entity once and no other entity.
C19_RegistryConsistent ==
    /\ \A e \in Handles :
          IF IsRegistered(K, e)
          THEN /\ Cardinality(PhasesHolding(K, e)) = 1
               /\ \A p \in PhasesHolding(K, e) :
                     Count(e, HandlesOf(K.phase_registrations[p])) = 1
          ELSE PhasesHolding(K, e) = {}
    /\ TickComplete(K)
          => \A e \in Handles :
                Count(e, InvokedHandles(K)) = IF IsRegistered(K, e) THEN 1 ELSE 0

\* C20: every name of the declared phase list is a key of the registration
\* map, and no call on the kernel has ended in a KeyError.
C20_DeclaredPhasesKeyed ==
    /\ \A i \in DOMAIN K.phases : K.phases[i] \in DOMAIN K.phase_registrations
    /\ K.err # "KeyError"

====
